---- MODULE Spec2Model ----
(***************************************************************************)
(* bpr-npm-audit: runs `npm audit --json` and publishes the result as a    *)
(* Bitbucket commit report (one summary PUT, then one PUT per annotation). *)
(*                                                                         *)
(* The repository holds two revisions of the script: src/index.js and      *)
(* src/unnamed/part_000.  The variable rev says which one is running; the  *)
(* definitions that differ between the two carry the suffix Index or Part. *)
(*                                                                         *)
(* Strings that the script only compares are TLA+ strings.  The keys of    *)
(* the advisories / vulnerabilities maps are sequences of one-character    *)
(* strings, because the script rewrites them character by character        *)
(* (replaceAll).  A JavaScript object is modelled by the sequence of its   *)
(* entries in Object.entries order.                                        *)
(***************************************************************************)
EXTENDS Integers, Sequences, FiniteSets, TLC

VARIABLES
    rev,                  \* which revision of the script runs
    pc,                   \* position of the script / of pushAllReports
    exitCode,             \* process exit status, NoExit while running
    bitbucket,            \* the four BITBUCKET_* values
    auditLevel,           \* BPR_LEVEL || 'high'
    BPR_PROXY,            \* process.env.BPR_PROXY as the script read it
    proxyHost,            \* the host the PUTs are sent to
    auditAnnotationLevel, \* BPR_LOG (part_000 only)
    spawned,              \* the subprocesses run so far, in order
    audit,                \* the parsed output of npm audit
    highestLevelIndex,    \* the reduce over ORDERED_LEVELS
    requests,             \* the PUT requests issued so far, with their responses
    i, j,                 \* loop positions: entry of the map, element of via
    annotationCount       \* part_000's counter of the vulnerabilities branch

vars == <<rev, pc, exitCode, bitbucket, auditLevel, BPR_PROXY, proxyHost,
          auditAnnotationLevel, spawned, audit, highestLevelIndex,
          requests, i, j, annotationCount>>

----------------------------------------------------------------------------
(* Bounds of the inputs *)

MaxAdvisories == 2
MaxVia == 2
BulkSlack == 1
BulkLead == 3

----------------------------------------------------------------------------
(* JavaScript values *)

Undefined == "<undefined>"
NoExit == -1
Pending == 0

\* JavaScript truthiness of a string-or-undefined value
Truthy(v) == v \notin {Undefined, ""}

\* a || b
OrElse(a, b) == IF Truthy(a) THEN a ELSE b

\* Array.prototype.indexOf, zero based, -1 when absent
IndexOf(seq, x) ==
    IF \E k \in 1..Len(seq) : seq[k] = x
    THEN (CHOOSE k \in 1..Len(seq) :
              seq[k] = x /\ \A m \in 1..(k - 1) : seq[m] # x) - 1
    ELSE -1

Range(seq) == {seq[k] : k \in 1..Len(seq)}

----------------------------------------------------------------------------
(* Constants of the script *)

Revisions == {"index.js", "part_000"}

ORDERED_LEVELS == <<"info", "low", "moderate", "high", "critical">>

MAX_ANNOTATIONS == 1000

IdentityKeys == {"branch", "commit", "owner", "slug"}

\* PROXY_TYPES[key] for the keys of EnvProxy: an own property or undefined
PROXY_TYPES_Index(key) ==
    CASE key = "local" -> "localhost"
      [] key = "pipe" -> "host.docker.internal"
      [] OTHER -> Undefined

PROXY_TYPES_Part(key) ==
    CASE key = "local" -> "127.0.0.1"
      [] key = "pipe" -> "host.docker.internal"
      [] OTHER -> Undefined

npmSeverityToBitbucketSeverity_Index(severity) ==
    CASE severity \in {"info", "low"} -> "LOW"
      [] severity = "moderate" -> "MEDIUM"
      [] severity = "high" -> "HIGH"
      [] severity = "critical" -> "CRITICAL"
      [] OTHER -> Undefined

npmSeverityToBitbucketSeverity_Part(severity) ==
    CASE severity \in {"info", "low"} -> "LOW"
      [] severity = "moderate" -> "MEDIUM"
      [] severity \in {"high", "critical"} -> "HIGH"
      [] OTHER -> Undefined

----------------------------------------------------------------------------
(* The environment the script reads *)

EnvIdentity == [IdentityKeys -> {Undefined, "", "set"}]
EnvLevel == {Undefined, ""} \cup Range(ORDERED_LEVELS) \cup {"bogus"}
EnvProxy == {Undefined, "local", "pipe", "bogus"}
EnvLog == {Undefined} \cup Range(ORDERED_LEVELS) \cup {"bogus"}

\* The narrow environment of the bulk specification
EnvIdentityNarrow == {[k \in IdentityKeys |-> "set"],
                      [k \in IdentityKeys |-> IF k = "slug" THEN Undefined ELSE "set"]}
EnvLevelNarrow == {Undefined, "bogus"}
EnvProxyNarrow == {Undefined, "bogus"}
EnvLogNarrow == {Undefined}

----------------------------------------------------------------------------
(* The output of npm audit *)

ViaString == [type |-> "string", name |-> Undefined, severity |-> Undefined]

\* a structured via entry; a plain string destructures to undefined fields
ViaObject(name, severity) == [type |-> "object", name |-> name, severity |-> severity]

ViaElems ==
    {ViaString}
    \cup {ViaObject(n, "high") : n \in {Undefined, "", "undefined"}}
    \cup {ViaObject("pkg", s) : s \in {"low", "high"}}

\* the keys a map may hold, in the order Object.entries lists them
AdvisoryIds == <<(<<"1">>), (<<"a", "/", "b">>), (<<"a", "-", "b">>)>>
NodeIds == <<(<<"a", "/", "b">>), (<<"a", "-", "b">>)>>

SeqsUpTo(S, n) == UNION {[1..m -> S] : m \in 0..n}

\* the entries of one map: distinct keys, in the order of ids
Entries(ids, seq) ==
    \A k \in 1..(Len(seq) - 1) : IndexOf(ids, seq[k].id) < IndexOf(ids, seq[k + 1].id)

Severities(seq) == {seq[k].severity : k \in 1..Len(seq)}

\* metadata.vulnerabilities as npm derives it from the findings it lists
CountsOf(sevs) == [l \in Range(ORDERED_LEVELS) |-> IF l \in sevs THEN 1 ELSE 0]

AllCounts == [Range(ORDERED_LEVELS) -> {0, 1}]

\* dependencies: {total: n} (npm 7), a number beside totalDependencies
\* (npm 6), or no dependencies key at all
DependencyShapes == {"nested", "flat", "absent"}

Audit(keys, counts, deps, advisories, vulnerabilities) ==
    [keys |-> keys, counts |-> counts, dependencies |-> deps,
     advisories |-> advisories, vulnerabilities |-> vulnerabilities]

NoAudit == Audit({}, CountsOf({}), "absent", <<>>, <<>>)

\* neither map present: every combination of counts and dependency shapes
SummaryAudits ==
    {Audit({}, c, d, <<>>, <<>>) : c \in AllCounts, d \in DependencyShapes}

AdvisoryLists ==
    {a \in SeqsUpTo([id : Range(AdvisoryIds), severity : Range(ORDERED_LEVELS)],
                     MaxAdvisories) :
        Entries(AdvisoryIds, a)}

AdvisoryAudits ==
    {Audit({"advisories"}, CountsOf(Severities(a)), "flat", a, <<>>) : a \in AdvisoryLists}

ViaLists == SeqsUpTo(ViaElems, MaxVia)

\* the nodes of a vulnerabilities map: at most two, in the order of NodeIds,
\* sharing at most MaxVia via entries
NodeLists ==
    {<<>>}
    \cup {<<[id |-> n, via |-> v]>> : n \in Range(NodeIds), v \in ViaLists}
    \cup UNION {{<<[id |-> NodeIds[p[1]], via |-> v], [id |-> NodeIds[p[2]], via |-> w]>> :
                    w \in SeqsUpTo(ViaElems, MaxVia - Len(v)),
                    p \in {q \in (1..Len(NodeIds)) \X (1..Len(NodeIds)) : q[1] < q[2]}} :
                v \in ViaLists}

NodeSeverities(nodes) ==
    UNION {{nodes[k].via[m].severity : m \in 1..Len(nodes[k].via)} : k \in 1..Len(nodes)}

VulnerabilityAudits ==
    {Audit({"vulnerabilities"}, CountsOf(NodeSeverities(n)), "nested", <<>>, n) :
        n \in NodeLists}

AuditInputs == SummaryAudits \cup AdvisoryAudits \cup VulnerabilityAudits

\* decimal digits of a positive number, as the characters of a map key
RECURSIVE Dec(_)
Dec(n) ==
    LET d == <<"0", "1", "2", "3", "4", "5", "6", "7", "8", "9">>
    IN  IF n < 10 THEN <<d[n + 1]>> ELSE Append(Dec(n \div 10), d[(n % 10) + 1])

BulkSizes == {MAX_ANNOTATIONS + d : d \in -1..BulkSlack}

\* n advisories "1" .. "n", all of severity high
BulkAdvisoryAudit(n) ==
    Audit({"advisories"}, CountsOf({"high"}), "flat",
          [k \in 1..n |-> [id |-> Dec(k), severity |-> "high"]], <<>>)

\* one node with n structured, named via entries of severity high
BulkVulnerabilityAudit(n) ==
    Audit({"vulnerabilities"}, CountsOf({"high"}), "nested", <<>>,
          <<[id |-> <<"p">>, via |-> [k \in 1..n |-> ViaObject("pkg", "high")]]>>)

NarrowAudits == {Audit({}, CountsOf({}), d, <<>>, <<>>) : d \in {"nested", "absent"}}

BulkAudits ==
    {BulkAdvisoryAudit(n) : n \in BulkSizes}
    \cup {BulkVulnerabilityAudit(n) : n \in BulkSizes}
    \cup NarrowAudits

\* what the npm audit subprocess hands back
ScanOutcomes(audits) ==
    {[kind |-> k, audit |-> NoAudit] : k \in {"stderr", "unparsable", "nometadata"}}
    \cup {[kind |-> "json", audit |-> a] : a \in audits}

----------------------------------------------------------------------------
(* Pure functions of the script *)

\* ORDERED_LEVELS.reduce((value, level, index) => counts[level] ? index : value, -1),
\* folded over the first k levels
RECURSIVE ReduceLevels(_, _)
ReduceLevels(counts, k) ==
    IF k = 0 THEN -1
    ELSE IF counts[ORDERED_LEVELS[k]] # 0 THEN k - 1
    ELSE ReduceLevels(counts, k - 1)

HighestLevelIndexOf(counts) == ReduceLevels(counts, Len(ORDERED_LEVELS))

proxyHost_Index(envProxy) == PROXY_TYPES_Index(OrElse(envProxy, "local"))

proxyHost_Part(envProxy) == OrElse(PROXY_TYPES_Part(envProxy), PROXY_TYPES_Part("local"))

result_Index(highest, level) ==
    IF highest <= IndexOf(ORDERED_LEVELS, level) THEN "PASSED" ELSE "FAILED"

result_Part(highest, level) ==
    IF highest < IndexOf(ORDERED_LEVELS, level) THEN "PASSED" ELSE "FAILED"

\* the value of the 'Safe to merge?' data point, the same in both revisions
SafeToMerge(highest, level) == highest <= IndexOf(ORDERED_LEVELS, level)

\* the value of the 'Dependencies' data point: which field it is read from
DependenciesValue(shape) ==
    IF shape = "nested" THEN "dependencies.total" ELSE "totalDependencies"

shouldAddAnnotationStrict(severity) ==
    IF ~Truthy(auditAnnotationLevel) THEN TRUE
    ELSE IndexOf(ORDERED_LEVELS, severity) > IndexOf(ORDERED_LEVELS, auditAnnotationLevel)

shouldAddAnnotation(severity) ==
    IF ~Truthy(auditAnnotationLevel) THEN TRUE
    ELSE IndexOf(ORDERED_LEVELS, severity) >= IndexOf(ORDERED_LEVELS, auditAnnotationLevel)

\* id.replaceAll('/', '-')
replaceAll(id) == [k \in 1..Len(id) |-> IF id[k] = "/" THEN "-" ELSE id[k]]

\* the part of the annotation path after `${reportId}-`
annotationKey_Index(id) == id

annotationKey_Part(id) == replaceAll(id)

AnnotationKey(id) ==
    IF rev = "part_000" THEN annotationKey_Part(id) ELSE annotationKey_Index(id)

\* annotationCount >= 1000, tested after the increment
CapReached(count) == count >= MAX_ANNOTATIONS

\* via && via.length && via.every(v => typeof v === 'string')
AllStrings(via) == Len(via) > 0 /\ \A k \in 1..Len(via) : via[k].type = "string"

\* !name || name === 'undefined'
NameSkipped(name) == ~Truthy(name) \/ name = "undefined"

Statuses == {200, 404}

StatusOkBelow500(status) == status < 500

\* response.statusCode !== 200 is fatal
StatusOk(status) == status = 200

SummaryRequest ==
    [kind |-> "summary", key |-> <<>>, src |-> <<0, 0>>, status |-> Pending,
     data |-> [result |-> IF rev = "part_000"
                          THEN result_Part(highestLevelIndex, auditLevel)
                          ELSE result_Index(highestLevelIndex, auditLevel),
               dependencies |-> DependenciesValue(audit.dependencies),
               safe |-> SafeToMerge(highestLevelIndex, auditLevel)]]

AnnotationRequest(id, severity, a, b) ==
    [kind |-> "annotation", key |-> AnnotationKey(id), src |-> <<a, b>>,
     status |-> Pending,
     severity |-> IF rev = "part_000"
                  THEN npmSeverityToBitbucketSeverity_Part(severity)
                  ELSE npmSeverityToBitbucketSeverity_Index(severity)]

PendingRequests == {k \in 1..Len(requests) : requests[k].status = Pending}

NotAwaited == TRUE

\* await push(...): pushAllReports goes on only when the request has resolved
Awaited == PendingRequests = {}

----------------------------------------------------------------------------
(* The script, top to bottom *)

Init ==
    /\ rev \in Revisions
    /\ pc = "identity"
    /\ exitCode = NoExit
    /\ bitbucket = [k \in IdentityKeys |-> Undefined]
    /\ auditLevel = Undefined
    /\ BPR_PROXY = Undefined
    /\ proxyHost = Undefined
    /\ auditAnnotationLevel = Undefined
    /\ spawned = <<>>
    /\ audit = NoAudit
    /\ highestLevelIndex = -1
    /\ requests = <<>>
    /\ i = 1
    /\ j = 1
    /\ annotationCount = 0

\* process.exit(code)
Exit(state, code) == pc' = state /\ exitCode' = code

\* the bitbucket object and its check
CheckIdentityFrom(envs) ==
    /\ pc = "identity"
    /\ \E env \in envs :
        /\ bitbucket' = env
        /\ IF \A k \in IdentityKeys : Truthy(env[k])
           THEN pc' = "options" /\ UNCHANGED exitCode
           ELSE Exit("failed", 1)
    /\ UNCHANGED <<rev, auditLevel, BPR_PROXY, proxyHost, auditAnnotationLevel, spawned,
                   audit, highestLevelIndex, requests, i, j, annotationCount>>

\* reportName .. maxAuditOutputBufferSize and the two checks after them
ReadOptionsFrom(levels, proxies, logs) ==
    /\ pc = "options"
    /\ \E envLevel \in levels, envProxy \in proxies, envLog \in logs :
        /\ auditLevel' = OrElse(envLevel, "high")
        /\ BPR_PROXY' = envProxy
        /\ proxyHost' = IF rev = "part_000"
                        THEN proxyHost_Part(envProxy)
                        ELSE proxyHost_Index(envProxy)
        /\ auditAnnotationLevel' = IF rev = "part_000" THEN envLog ELSE Undefined
        /\ IF auditLevel' \notin Range(ORDERED_LEVELS) THEN Exit("failed", 1)
           ELSE IF ~Truthy(proxyHost') THEN Exit("failed", 1)
           ELSE pc' = "audit" /\ UNCHANGED exitCode
    /\ UNCHANGED <<rev, bitbucket, spawned, audit, highestLevelIndex, requests,
                   i, j, annotationCount>>

\* spawnSync('npm', ['audit', '--json']), JSON.parse and highestLevelIndex
RunAuditFrom(audits) ==
    /\ pc = "audit"
    /\ spawned' = IF rev = "part_000" THEN <<"ls", "npm audit --json">>
                  ELSE <<"npm audit --json">>
    /\ \E out \in ScanOutcomes(audits) :
        CASE out.kind = "stderr" ->
                /\ Exit("failed", 1)
                /\ UNCHANGED <<audit, highestLevelIndex>>
          [] out.kind = "unparsable" ->
                \* part_000 catches the SyntaxError, index.js lets it escape
                /\ IF rev = "part_000" THEN Exit("failed", 1) ELSE Exit("crashed", 1)
                /\ UNCHANGED <<audit, highestLevelIndex>>
          [] out.kind = "nometadata" ->
                \* audit.metadata.vulnerabilities throws a TypeError
                /\ Exit("crashed", 1)
                /\ UNCHANGED <<audit, highestLevelIndex>>
          [] OTHER ->
                /\ audit' = out.audit
                /\ highestLevelIndex' = HighestLevelIndexOf(out.audit.counts)
                /\ pc' = "pushAllReports"
                /\ UNCHANGED exitCode
    /\ UNCHANGED <<rev, bitbucket, auditLevel, BPR_PROXY, proxyHost, auditAnnotationLevel,
                   requests, i, j, annotationCount>>

\* pushAllReports up to its first await: the summary report
PushSummary ==
    /\ pc = "pushAllReports"
    /\ IF audit.dependencies = "absent"
       THEN \* audit.metadata.dependencies.total throws: the promise is rejected
            \* and nothing handles it; the exit status depends on the Node version
            /\ pc' = "crashed"
            /\ exitCode' \in {0, 1}
            /\ UNCHANGED requests
       ELSE /\ requests' = Append(requests, SummaryRequest)
            /\ pc' = "loop"
            /\ UNCHANGED exitCode
    /\ UNCHANGED <<rev, bitbucket, auditLevel, BPR_PROXY, proxyHost, auditAnnotationLevel,
                   spawned, audit, highestLevelIndex, i, j, annotationCount>>

\* the response's 'end' handler of push
Respond ==
    /\ pc \in {"loop", "resolved"}
    /\ \E k \in PendingRequests, status \in Statuses :
        /\ requests' = [requests EXCEPT ![k].status = status]
        /\ IF StatusOk(status) THEN UNCHANGED <<pc, exitCode>> ELSE Exit("failed", 1)
    /\ UNCHANGED <<rev, bitbucket, auditLevel, BPR_PROXY, proxyHost, auditAnnotationLevel,
                   spawned, audit, highestLevelIndex, i, j, annotationCount>>

\* one iteration of for (const [id, advisory] of Object.entries(audit.advisories))
AdvisoryStep ==
    IF i > Len(audit.advisories)
    THEN pc' = "resolved" /\ UNCHANGED <<requests, i, j, annotationCount>>
    ELSE LET advisory == audit.advisories[i]
             wanted == IF rev = "part_000" THEN shouldAddAnnotation(advisory.severity)
                       ELSE TRUE
         IN  /\ requests' = IF wanted
                            THEN Append(requests,
                                        AnnotationRequest(advisory.id, advisory.severity, i, 0))
                            ELSE requests
             /\ i' = i + 1
             /\ UNCHANGED <<pc, j, annotationCount>>

\* one iteration of the loops over audit.vulnerabilities and over via
VulnerabilityStep ==
    IF i > Len(audit.vulnerabilities)
    THEN pc' = "resolved" /\ UNCHANGED <<requests, i, j, annotationCount>>
    ELSE LET node == audit.vulnerabilities[i]
             via == node.via
         IN  IF AllStrings(via) \/ j > Len(via)
             THEN /\ i' = i + 1
                  /\ j' = 1
                  /\ UNCHANGED <<pc, requests, annotationCount>>
             ELSE LET v == via[j]
                      push == Append(requests, AnnotationRequest(node.id, v.severity, i, j))
                  IN  /\ j' = j + 1
                      /\ UNCHANGED <<pc, i>>
                      /\ IF rev = "part_000"
                         THEN IF NameSkipped(v.name) \/ ~shouldAddAnnotation(v.severity)
                              THEN UNCHANGED <<requests, annotationCount>>
                              ELSE /\ annotationCount' = annotationCount + 1
                                   /\ requests' = IF CapReached(annotationCount')
                                                  THEN requests ELSE push
                         ELSE requests' = push /\ UNCHANGED annotationCount

\* pushAllReports after an await
LoopStep ==
    /\ pc = "loop"
    /\ Awaited
    /\ IF "advisories" \in audit.keys THEN AdvisoryStep
       ELSE IF "vulnerabilities" \in audit.keys THEN VulnerabilityStep
       ELSE pc' = "resolved" /\ UNCHANGED <<requests, i, j, annotationCount>>
    /\ UNCHANGED <<rev, exitCode, bitbucket, auditLevel, BPR_PROXY, proxyHost,
                   auditAnnotationLevel, spawned, audit, highestLevelIndex>>

\* pushAllReports().then(() => process.exit(0))
Finish ==
    /\ pc = "resolved"
    /\ Exit("done", 0)
    /\ UNCHANGED <<rev, bitbucket, auditLevel, BPR_PROXY, proxyHost, auditAnnotationLevel,
                   spawned, audit, highestLevelIndex, requests, i, j, annotationCount>>

CheckIdentity == CheckIdentityFrom(EnvIdentity)
ReadOptions == ReadOptionsFrom(EnvLevel, EnvProxy, EnvLog)
RunAudit == RunAuditFrom(AuditInputs)

Next ==
    \/ CheckIdentity
    \/ ReadOptions
    \/ RunAudit
    \/ PushSummary
    \/ Respond
    \/ LoopStep
    \/ Finish

Spec == Init /\ [][Next]_vars

\* The same script on scans large enough to reach the annotation cap, from
\* the start of the script
CheckIdentityNarrow == CheckIdentityFrom(EnvIdentityNarrow)
ReadOptionsNarrow == ReadOptionsFrom(EnvLevelNarrow, EnvProxyNarrow, EnvLogNarrow)
RunAuditBulk == RunAuditFrom(BulkAudits)

NextBulkFromStart ==
    \/ CheckIdentityNarrow
    \/ ReadOptionsNarrow
    \/ RunAuditBulk
    \/ PushSummary
    \/ Respond
    \/ LoopStep
    \/ Finish

SpecBulkFromStart == Init /\ [][NextBulkFromStart]_vars

\* The state SpecBulkFromStart is in when, with the default options, the
\* first done findings of a bulk scan have each been annotated and answered
\* 200 and the script is about to take the next one (done < MAX_ANNOTATIONS - 1,
\* so that the cap has not acted yet).
MidRun(r, a, done) ==
    /\ rev = r
    /\ pc = "loop"
    /\ exitCode = NoExit
    /\ bitbucket = [k \in IdentityKeys |-> "set"]
    /\ auditLevel = "high"
    /\ BPR_PROXY = Undefined
    /\ proxyHost = IF r = "part_000" THEN proxyHost_Part(Undefined)
                   ELSE proxyHost_Index(Undefined)
    /\ auditAnnotationLevel = Undefined
    /\ spawned = IF r = "part_000" THEN <<"ls", "npm audit --json">>
                 ELSE <<"npm audit --json">>
    /\ audit = a
    /\ highestLevelIndex = HighestLevelIndexOf(a.counts)
    /\ i = IF "advisories" \in a.keys THEN done + 1 ELSE 1
    /\ j = IF "advisories" \in a.keys THEN 1 ELSE done + 1
    /\ annotationCount = IF "advisories" \in a.keys \/ r = "index.js" THEN 0 ELSE done
    /\ requests =
        [k \in 1..(done + 1) |->
            IF k = 1
            THEN [kind |-> "summary", key |-> <<>>, src |-> <<0, 0>>, status |-> 200,
                  data |-> [result |-> IF r = "part_000"
                                       THEN result_Part(HighestLevelIndexOf(a.counts), "high")
                                       ELSE result_Index(HighestLevelIndexOf(a.counts), "high"),
                            dependencies |-> DependenciesValue(a.dependencies),
                            safe |-> SafeToMerge(HighestLevelIndexOf(a.counts), "high")]]
            ELSE [kind |-> "annotation",
                  key |-> IF "advisories" \in a.keys
                          THEN (IF r = "part_000" THEN annotationKey_Part(Dec(k - 1))
                                ELSE annotationKey_Index(Dec(k - 1)))
                          ELSE <<"p">>,
                  src |-> IF "advisories" \in a.keys THEN <<k - 1, 0>> ELSE <<1, k - 1>>,
                  status |-> 200,
                  severity |-> IF r = "part_000"
                               THEN npmSeverityToBitbucketSeverity_Part("high")
                               ELSE npmSeverityToBitbucketSeverity_Index("high")]]

BulkDone == MAX_ANNOTATIONS - BulkLead

\* The bulk scans taken up where the cap is about to act, beside the start of
\* the script on a narrow environment
InitBulk ==
    \/ Init
    \/ \E r \in Revisions, n \in BulkSizes :
        \/ MidRun(r, BulkAdvisoryAudit(n), BulkDone)
        \/ MidRun(r, BulkVulnerabilityAudit(n), BulkDone)

RunAuditNarrow == RunAuditFrom(NarrowAudits)

NextBulk ==
    \/ CheckIdentityNarrow
    \/ ReadOptionsNarrow
    \/ RunAuditNarrow
    \/ PushSummary
    \/ Respond
    \/ LoopStep
    \/ Finish

SpecBulk == InitBulk /\ [][NextBulk]_vars

\* SpecBulkFromStart reaches the states InitBulk takes the bulk scans up in
MidRunReached ==
    \E r \in Revisions, n \in BulkSizes :
        \/ MidRun(r, BulkAdvisoryAudit(n), BulkDone)
        \/ MidRun(r, BulkVulnerabilityAudit(n), BulkDone)

----------------------------------------------------------------------------
(* Vocabulary of the properties *)

SummaryRequests == {k \in 1..Len(requests) : requests[k].kind = "summary"}
AnnotationRequests == {k \in 1..Len(requests) : requests[k].kind = "annotation"}

\* the findings the annotation requests were issued for, in the order of issue
AnnotationSources ==
    [k \in 1..(Len(requests) - 1) |-> requests[k + 1].src]

IsPrefix(a, b) == Len(a) <= Len(b) /\ \A k \in 1..Len(a) : a[k] = b[k]

\* the scale index of the highest level with a non-zero count, -1 when none
HighestIndex(counts) ==
    LET present == {k \in 1..Len(ORDERED_LEVELS) : counts[ORDERED_LEVELS[k]] # 0}
    IN  IF present = {} THEN -1
        ELSE (CHOOSE k \in present : \A m \in present : m <= k) - 1

\* no minimum configured, or the severity is at or above the minimum
PassesMinimum(severity) ==
    \/ ~Truthy(auditAnnotationLevel)
    \/ IndexOf(ORDERED_LEVELS, severity) >= IndexOf(ORDERED_LEVELS, auditAnnotationLevel)

\* the advisories that are to be annotated, in map order
ExpectedAdvisories ==
    LET n == Len(audit.advisories)
        wanted(k) == PassesMinimum(audit.advisories[k].severity)
    IN  SelectSeq([k \in 1..n |-> k], wanted)

\* a via entry that is structured and carries a usable name
NamedEntry(v) == v.type = "object" /\ v.name \notin {Undefined, "", "undefined"}

\* the via entries of one node that are to be annotated, in via order
RECURSIVE EntriesOf(_, _, _)
EntriesOf(a, via, b) ==
    IF b > Len(via) THEN <<>>
    ELSE (IF NamedEntry(via[b]) /\ PassesMinimum(via[b].severity)
          THEN <<(<<a, b>>)>> ELSE <<>>) \o EntriesOf(a, via, b + 1)

\* the via entries of the whole map that are to be annotated, in map order
RECURSIVE ExpectedEntriesFrom(_)
ExpectedEntriesFrom(a) ==
    IF a > Len(audit.vulnerabilities) THEN <<>>
    ELSE EntriesOf(a, audit.vulnerabilities[a].via, 1) \o ExpectedEntriesFrom(a + 1)

\* the number of findings that pass the minimum-severity filter and the skip rules
EligibleFindings ==
    IF "advisories" \in audit.keys THEN Len(ExpectedAdvisories)
    ELSE IF "vulnerabilities" \in audit.keys
         THEN Cardinality({<<a, b>> \in (1..Len(audit.vulnerabilities)) \X (1..(MAX_ANNOTATIONS + BulkSlack)) :
                    /\ b <= Len(audit.vulnerabilities[a].via)
                    /\ NamedEntry(audit.vulnerabilities[a].via[b])
                    /\ PassesMinimum(audit.vulnerabilities[a].via[b].severity)})
         ELSE 0

Min(a, b) == IF a <= b THEN a ELSE b

----------------------------------------------------------------------------
(* The properties *)

\* C1: the summary's result is PASSED exactly when the highest level with a
\* non-zero count lies strictly below the threshold, FAILED otherwise; a
\* vulnerability at the threshold level itself gives FAILED.
C1_ResultIffBelowThreshold ==
    \A k \in SummaryRequests :
        /\ requests[k].data.result \in {"PASSED", "FAILED"}
        /\ requests[k].data.result = "PASSED"
            <=> HighestIndex(audit.counts) < IndexOf(ORDERED_LEVELS, auditLevel)

\* C2: in every published summary the 'Safe to merge?' value is true exactly
\* when the result is PASSED.
C2_SafeToMergeMatchesResult ==
    \A k \in SummaryRequests :
        requests[k].data.safe <=> requests[k].data.result = "PASSED"

\* C3: a run that reaches the publishing phase issues exactly one summary
\* request, as its first request; an annotation request begins only after the
\* summary was answered 200; every request is answered before the next one
\* begins, so at most one request is in flight.
C3_SummaryFirstThenSequential ==
    /\ pc \in {"loop", "resolved", "done"} => Cardinality(SummaryRequests) = 1
    /\ Cardinality(SummaryRequests) <= 1
    /\ requests # <<>> => requests[1].kind = "summary"
    /\ AnnotationRequests # {} => requests[1].status = 200
    /\ \A k \in 1..(Len(requests) - 1) : requests[k].status # Pending
    /\ Cardinality(PendingRequests) <= 1

\* an annotation request is in flight after an earlier annotation was answered
C3_Witness ==
    /\ Len(requests) >= 3
    /\ requests[3].kind = "annotation"
    /\ requests[3].status = Pending
    /\ requests[2].status = 200

\* C4: a response other than 200 ends the process with status 1 at once: the
\* request it answers stays the last one ever issued, and exit 0 is not reached.
C4_Non200IsFatal ==
    \A k \in 1..Len(requests) :
        requests[k].status \notin {Pending, 200}
            => /\ k = Len(requests)
               /\ pc = "failed"
               /\ exitCode = 1

\* an annotation request answered 404 after the summary went through
C4_Witness ==
    /\ Len(requests) >= 2
    /\ requests[Len(requests)].kind = "annotation"
    /\ requests[Len(requests)].status = 404
    /\ requests[1].status = 200
    /\ exitCode = 1

\* C5: a run in which every request is answered 200 ends successfully with
\* exactly min(N, 1000) annotation requests, N the number of eligible findings.
C5_AnnotationCap ==
    pc = "done"
        => Cardinality(AnnotationRequests) = Min(EligibleFindings, MAX_ANNOTATIONS)

\* C6: a missing or empty identity value, a threshold outside the scale, or a
\* relay selector set to something other than local or pipe ends the process
\* with status 1 before the scan runs and before any request is issued.
C6_PreflightErrorsAreFatal ==
    LET identityBad == pc # "identity" /\ \E k \in IdentityKeys : ~Truthy(bitbucket[k])
        optionsRead == pc \notin {"identity", "options"} /\ ~identityBad
        levelBad == optionsRead /\ auditLevel \notin Range(ORDERED_LEVELS)
        proxyBad == optionsRead /\ Truthy(BPR_PROXY) /\ BPR_PROXY \notin {"local", "pipe"}
    IN  (identityBad \/ levelBad \/ proxyBad)
            => /\ pc = "failed"
               /\ exitCode = 1
               /\ spawned = <<>>
               /\ requests = <<>>

\* C7: for a vulnerabilities map and no minimum annotation severity, the
\* annotation requests of a finished run are one per structured via entry with
\* a usable name, in map order and then via order; plain strings and entries
\* with an absent, empty or "undefined" name give none.
C7_VulnerabilityAnnotations ==
    ("vulnerabilities" \in audit.keys /\ ~Truthy(auditAnnotationLevel) /\ requests # <<>>)
        => /\ IsPrefix(AnnotationSources, ExpectedEntriesFrom(1))
           /\ pc = "done" => AnnotationSources = ExpectedEntriesFrom(1)

\* C8: for an advisories map, the annotation requests are one per advisory that
\* passes the minimum annotation severity (all of them when none is
\* configured), in map order.
C8_AdvisoryAnnotations ==
    ("advisories" \in audit.keys /\ requests # <<>>)
        => LET sources == [k \in 1..Len(AnnotationSources) |-> AnnotationSources[k][1]]
           IN  /\ IsPrefix(sources, ExpectedAdvisories)
               /\ pc = "done" => sources = ExpectedAdvisories
               /\ (pc = "done" /\ ~Truthy(auditAnnotationLevel))
                    => Cardinality(AnnotationRequests) = Len(audit.advisories)

\* a finished run that annotated one advisory and filtered another one out
C8_Witness ==
    /\ pc = "done"
    /\ "advisories" \in audit.keys
    /\ Len(audit.advisories) = 2
    /\ Cardinality(AnnotationRequests) = 1
    /\ requests[2].src = <<2, 0>>
    /\ Truthy(auditAnnotationLevel)

\* C9: the per-finding part of an annotation path holds no "/".
C9_KeyHasNoSlash ==
    \A k \in AnnotationRequests : "/" \notin Range(requests[k].key)

\* C10: no two annotation requests of a run go to the same path.
C10_DistinctAnnotationPaths ==
    \A a, b \in AnnotationRequests : a # b => requests[a].key # requests[b].key

====
